---- MODULE Spec2Model ----
(***************************************************************************)
(* A model of the audio engine: the name-keyed method dispatch tables      *)
(* (both generations), the Node/Sound graph with the Vocoder's carriers,  *)
(* the Echo and Triangle units, the Resampler and the WAV generator that   *)
(* owns one.  Amplitudes and cursors are exact fixed-point                 *)
(* numbers: an integer v stands for v / One (Triangle) or v / Unit         *)
(* (Resampler).                                                            *)
(***************************************************************************)
EXTENDS Integers, Sequences, FiniteSets, TLC

\* ------------------------------------------------------------------------
\* State
\* ------------------------------------------------------------------------
\* Dispatch tables
VARIABLES
  heap,        \* live objects, keyed by address
  s_Table,     \* the global registry: address -> (name -> callable)
  instCount,   \* instances constructed so far
  callStatus,  \* how the last CallMethod ended
  callInvoked  \* the callable the last CallMethod invoked, as a set

dvars == <<heap, s_Table, instCount, callStatus, callInvoked>>

\* Triangle oscillator
VARIABLES
  m_Irate,   \* the per-call rate, signed
  m_Inc,     \* the phase accumulator
  triOut     \* the frame the last SendSample returned

tvars == <<m_Irate, m_Inc, triOut>>

\* Echo
VARIABLES
  m_Echo,      \* the delay line (std::deque), head first
  m_Ratio,     \* the decay ratio
  echoDelay,   \* the sample_delay the Echo was constructed with
  echoIn,      \* the dry frames passed to FilterSample so far
  echoOut,     \* the frames FilterSample returned so far
  echoUB       \* front()/pop_front() ran on an empty deque

evars == <<m_Echo, m_Ratio, echoDelay, echoIn, echoOut, echoUB>>

\* Resampler
VARIABLES
  rsData,            \* m_Data: the frame buffer, fixed at construction
  m_Index,           \* the play cursor, in units of 1/Unit frame
  m_IndexIncrement,  \* SourceSampleRate * INC_RATE
  m_PlaybackSpeed,   \* in units of 1/Unit
  m_LoopStart,
  m_LoopEnd,
  rsOut,             \* the frame the last Process returned, times Unit
  rsPath,            \* the return the last Process took
  rsOob,             \* some Process read m_Data out of bounds
  rsBuild            \* how the build converts a negative double to uint64_t

rvars == <<rsData, m_Index, m_IndexIncrement, m_PlaybackSpeed, m_LoopStart,
           m_LoopEnd, rsOut, rsPath, rsOob, rsBuild>>

\* WAV generator (both generations); its resampler is the Resampler above
VARIABLES
  wavGen,        \* "AudioEngine" (buffer is a member) or "OCAE" (local buffer)
  wavData,       \* WAV::m_Data of the AudioEngine generation
  m_Resampler,   \* the generator holds a resampler (the pointer is not null)
  wavBufAlive,   \* the vector the resampler's m_Data refers to still exists
  wavLastLoad,   \* how the last load ended: "none", "open_failed", "bad_fmt", "ok"
  wavLoads,      \* successful loads so far
  wavOut,        \* the frames returned since the last successful load
  wavStale       \* some Process read a destroyed vector

wvars == <<wavGen, wavData, m_Resampler, wavBufAlive, wavLastLoad, wavLoads,
           wavOut, wavStale>>

\* WAV::ParseWAV's sample-decoding loop
VARIABLES
  dataVecSize,     \* data_vec.size(): the length of the data chunk, in bytes
  BytesPerSample,  \* header->BytesPerSample
  BitsPerSample,   \* header->BitsPerSample
  ChannelCount,    \* header->ChannelCount
  dataPos,         \* the pointer `data`, as an offset into the data chunk
  decoded,         \* the number of frames pushed so far
  parsePc,         \* "reserve", "decoding", "done" or "faulted"
  parseOverread    \* some iteration read bytes past the end of the data chunk

pvars == <<dataVecSize, BytesPerSample, BitsPerSample, ChannelCount, dataPos,
           decoded, parsePc, parseOverread>>

\* Node and Sound (the graph)
VARIABLES
  gCfg,           \* which graph was assembled
  m_Generator,    \* node -> the generator it refers to (0: none)
  m_Modifier,     \* node -> the modifier it refers to (0: none)
  m_Interaction,  \* node -> its interaction function
  m_Targets,      \* node -> the cells it writes to, in registration order
  cell,           \* cell -> frame; node n's input cell m_Input is cell n
  nodeOut,        \* node -> its own output cell
  genPhase,       \* generator -> frames produced so far
  gPc,            \* "idle" between ticks, "ticking" inside one
  gDone,          \* nodes whose SendSample has run in the current tick
  gTick,          \* ticks completed
  gResult,        \* the frame the last tick returned
  gEdits,         \* reconfigurations made after assembly
  m_Mu,           \* Vocoder::m_Mu, in units of 1/MuUnit
  carFreq         \* carrier generator -> its frequency, in units of 1/MuUnit Hz

gvars == <<gCfg, m_Generator, m_Modifier, m_Interaction, m_Targets, cell,
           nodeOut, genPhase, gPc, gDone, gTick, gResult, gEdits, m_Mu,
           carFreq>>

vars == <<dvars, tvars, evars, rvars, gvars, wvars, pvars>>

\* What an action of one component leaves alone: the other components.
dOthers == <<tvars, evars, rvars, gvars, wvars, pvars>>
tOthers == <<dvars, evars, rvars, gvars, wvars, pvars>>
eOthers == <<dvars, tvars, rvars, gvars, wvars, pvars>>
rOthers == <<dvars, tvars, evars, gvars, wvars, pvars>>
gOthers == <<dvars, tvars, evars, rvars, wvars, pvars>>
\* The WAV generator owns a resampler: its actions change rvars too.
wOthers == <<dvars, tvars, evars, gvars, pvars>>
pOthers == <<dvars, tvars, evars, rvars, gvars, wvars>>

\* ------------------------------------------------------------------------
\* Bounds of the model
\* ------------------------------------------------------------------------
MaxAddr == 2
MaxInst == 2
MaxArg == 1

\* ------------------------------------------------------------------------
\* Helpers on finite maps (std::unordered_map)
\* ------------------------------------------------------------------------
EmptyMap == [k \in {} |-> 0]

MapPut(m, k, v) == [x \in (DOMAIN m) \cup {k} |-> IF x = k THEN v ELSE m[x]]

MapDel(m, k) == [x \in (DOMAIN m) \ {k} |-> m[x]]

Abs(x) == IF x < 0 THEN -x ELSE x

\* ========================================================================
\* Dispatch tables
\* ========================================================================
Addr == 1..MaxAddr
Args == 0..MaxArg
Names == {"SetFrequency", "ReadFile", "GetFrequency"}
Classes == {"Triangle", "WAV", "GeneratorBase"}
Ctors == {"default", "path", "data", "argc"}
Generations == {"global", "instance"}

\* The names a class's CreateMethodList returns.
CreateMethodList(cls) ==
  CASE cls = "Triangle" -> {"SetFrequency"}
    [] cls = "WAV" -> {"ReadFile"}
    [] OTHER -> {}

\* The names a constructor registers: Triangle's constructor and WAV's default
\* constructor call RegisterMethods(CreateMethodList()); WAV's other
\* constructors and GeneratorBase's register nothing.
CtorRegisters(cls, ctor) ==
  CASE cls = "Triangle" -> CreateMethodList(cls)
    [] cls = "WAV" /\ ctor = "default" -> CreateMethodList(cls)
    [] OTHER -> {}

\* RegisterMethods(list) for the instance `inst`: each callable captures `this`.
RegisterMethods(tab, names, inst) ==
  [n \in (DOMAIN tab) \cup names |->
     IF n \in names THEN [fn |-> n, this |-> inst] ELSE tab[n]]

\* The object a callable's captured `this` refers to, if it is still alive.
AliveAt(inst) == {a \in DOMAIN heap : heap[a].inst = inst}

\* Running a registered callable: the method writes its argument into the
\* receiver it captured.
Invoke(c, arg) ==
  IF AliveAt(c.this) # {}
    THEN /\ heap' = [a \in DOMAIN heap |->
                       IF heap[a].inst = c.this
                         THEN [heap[a] EXCEPT !.param = arg] ELSE heap[a]]
         /\ callStatus' = "returned"
    ELSE /\ heap' = heap
         /\ callStatus' = "dangling"

\* A constructor at a free address.  The global generation's constructor
\* leaves other entries of s_Table alone and writes its own names into the
\* entry of `this`; the per-instance generation fills the member m_Table.
Construct(a, cls, ctor, g) ==
  /\ a \notin DOMAIN heap
  /\ instCount < MaxInst
  /\ cls = "WAV" \/ ctor = "default"
  /\ LET inst == instCount + 1
         names == CtorRegisters(cls, ctor)
     IN  /\ heap' = MapPut(heap, a,
               [cls |-> cls, ctor |-> ctor, gen |-> g, inst |-> inst, param |-> 0,
                m_Table |-> IF g = "instance"
                              THEN RegisterMethods(EmptyMap, names, inst)
                              ELSE EmptyMap])
         /\ s_Table' = IF g = "global" /\ names # {}
                         THEN MapPut(s_Table, a,
                                RegisterMethods(
                                  IF a \in DOMAIN s_Table THEN s_Table[a] ELSE EmptyMap,
                                  names, inst))
                         ELSE s_Table
         /\ instCount' = inst
  /\ UNCHANGED <<callStatus, callInvoked>>
  /\ UNCHANGED dOthers

\* virtual ~MethodTable() = default: the object goes, the registry stays.
Destroy_Deregisters(a) ==
  /\ a \in DOMAIN heap
  /\ heap' = MapDel(heap, a)
  /\ s_Table' = MapDel(s_Table, a)
  /\ UNCHANGED <<instCount, callStatus, callInvoked>>
  /\ UNCHANGED dOthers

Destroy(a) ==
  /\ a \in DOMAIN heap
  /\ heap' = MapDel(heap, a)
  /\ UNCHANGED <<s_Table, instCount, callStatus, callInvoked>>
  /\ UNCHANGED dOthers

\* The table CallMethod looks the name up in: m_Table.at(fn) for the
\* per-instance generation, s_Table.at(this).at(fn) for the global one.
\* The result is the set of callables found (empty: at() throws).
Lookup(a, fn) ==
  IF heap[a].gen = "instance"
    THEN IF fn \in DOMAIN heap[a].m_Table THEN {heap[a].m_Table[fn]} ELSE {}
    ELSE IF a \in DOMAIN s_Table /\ fn \in DOMAIN s_Table[a]
           THEN {s_Table[a][fn]} ELSE {}

\* at() on a missing key throws std::out_of_range to the caller.
CallOutcomeNotFound_Silent(found) == "returned"

CallOutcomeNotFound(found) == "out_of_range"

CallMethod(a, fn, arg) ==
  /\ a \in DOMAIN heap
  /\ UNCHANGED dOthers
  /\ LET found == Lookup(a, fn)
     IN  IF found = {}
           THEN /\ callStatus' = CallOutcomeNotFound(found)
                /\ callInvoked' = {}
                /\ UNCHANGED <<heap, s_Table, instCount>>
           ELSE /\ callInvoked' = found
                /\ \E c \in found : Invoke(c, arg)
                /\ UNCHANGED <<s_Table, instCount>>

DispatchInit ==
  /\ heap = EmptyMap
  /\ s_Table = EmptyMap
  /\ instCount = 0
  /\ callStatus = "none"
  /\ callInvoked = {}

DispatchNext ==
  \/ \E a \in Addr, cls \in Classes, ctor \in Ctors, g \in Generations :
       Construct(a, cls, ctor, g)
  \/ \E a \in Addr : Destroy(a)
  \/ \E a \in Addr, fn \in Names, arg \in Args : CallMethod(a, fn, arg)

\* ========================================================================
\* Triangle oscillator (amplitudes in units of 1/One)
\* ========================================================================
\* INC_RATE is 1/TickRate seconds; the amplitude 1.0 is One units, so that
\* 4 * freq * INC_RATE is the integer 4 * freq * One / TickRate.
TickRate == 16
One == TickRate
MaxFreq == 9
MaxAmp == 3

Freqs == (-MaxFreq)..MaxFreq

TriRate(freq) == (4 * freq * One) \div TickRate

MONO_TO_STEREO(x) == <<x, x>>

\* Triangle::Triangle(freq): m_Irate(4 * freq * INC_RATE), m_Inc().
TriangleInit ==
  /\ \E freq \in Freqs : m_Irate = TriRate(freq)
  /\ m_Inc = 0
  /\ triOut = MONO_TO_STEREO(0)

\* if(m_Irate < 0) freq *= -1;  m_Irate = 4 * freq * INC_RATE;
SetFrequency_ResetsDirection(freq) ==
  /\ m_Irate' = TriRate(freq)
  /\ UNCHANGED <<m_Inc, triOut>>
  /\ UNCHANGED tOthers

SetFrequency(freq) ==
  /\ m_Irate' = TriRate(IF m_Irate < 0 THEN -freq ELSE freq)
  /\ UNCHANGED <<m_Inc, triOut>>
  /\ UNCHANGED tOthers

\* m_Inc = (m_Inc >= 1) ? (2 - m_Inc) : (-2 - m_Inc);
TriReflect_NoLower(inc) == IF inc >= One THEN 2 * One - inc ELSE inc

TriReflect(inc) == IF inc >= One THEN 2 * One - inc ELSE -2 * One - inc

TriSendSample ==
  /\ Abs(m_Inc) <= MaxAmp * One
  /\ UNCHANGED tOthers
  /\ LET inc == m_Inc + m_Irate
     IN  IF inc >= One \/ inc <= -One
           THEN /\ m_Irate' = -m_Irate
                /\ m_Inc' = TriReflect(inc)
                /\ triOut' = MONO_TO_STEREO(TriReflect(inc))
           ELSE /\ m_Irate' = m_Irate
                /\ m_Inc' = inc
                /\ triOut' = MONO_TO_STEREO(inc)

TriangleNext ==
  \/ \E freq \in Freqs : SetFrequency(freq)
  \/ TriSendSample

\* A fixed Triangle, for the specifications of the other components.
TriangleIdle ==
  /\ m_Irate = TriRate(1)
  /\ m_Inc = 0
  /\ triOut = MONO_TO_STEREO(0)

\* ========================================================================
\* Echo
\* ========================================================================
MaxDelay == 2
MaxRatio == 2
MaxCalls == 3

Silent == <<0, 0>>
DryFrames == {<<0, 0>>, <<1, -2>>, <<-3, 1>>}
Ratios == (-1)..MaxRatio
\* What a read of an empty deque's front may yield.
GarbageFrames == {<<0, 0>>, <<7, -7>>}

Left(f) == f[1]
Right(f) == f[2]

\* Echo::Echo(sample_delay, decay_ratio): m_Echo(sample_delay, StereoData()).
EchoCtorLine(delay) == [i \in 1..delay |-> Silent]

EchoInit ==
  /\ \E d \in 0..MaxDelay : echoDelay = d /\ m_Echo = EchoCtorLine(d)
  /\ m_Ratio \in Ratios
  /\ echoIn = << >>
  /\ echoOut = << >>
  /\ echoUB = FALSE

\* out = (Left(wet) * m_Ratio + Left(dry), Right(wet) * m_Ratio + Right(dry))
EchoMix_NoDecay(wet, dry, ratio) == <<Left(wet) + Left(dry), Right(wet) + Right(dry)>>

EchoMix(wet, dry, ratio) ==
  <<Left(wet) * ratio + Left(dry), Right(wet) * ratio + Right(dry)>>

\* front(); pop_front(); push_back(out); return out.  On an empty deque
\* front() and pop_front() are undefined: the frame read is arbitrary and
\* the deque may or may not hold the pushed frame afterwards.
FilterSample(dry) ==
  /\ Len(echoOut) < MaxCalls
  /\ IF m_Echo # << >>
       THEN LET out == EchoMix(Head(m_Echo), dry, m_Ratio)
            IN  /\ m_Echo' = Append(Tail(m_Echo), out)
                /\ echoOut' = Append(echoOut, out)
                /\ echoUB' = echoUB
       ELSE \E wet \in GarbageFrames :
              LET out == EchoMix(wet, dry, m_Ratio)
              IN  /\ m_Echo' \in {<< >>, <<out>>}
                  /\ echoOut' = Append(echoOut, out)
                  /\ echoUB' = TRUE
  /\ echoIn' = Append(echoIn, dry)
  /\ UNCHANGED <<m_Ratio, echoDelay>>
  /\ UNCHANGED eOthers

EchoNext == \E dry \in DryFrames : FilterSample(dry)

EchoIdle ==
  /\ echoDelay = 1
  /\ m_Echo = EchoCtorLine(1)
  /\ m_Ratio = 1
  /\ echoIn = << >>
  /\ echoOut = << >>
  /\ echoUB = FALSE

\* ========================================================================
\* Resampler (src.old/Tools/Resampler.cpp)
\* ========================================================================
\* The cursor and the playback speed are fixed-point with denominator Unit;
\* m_IndexIncrement is a whole number of frames per tick.  U64 stands for
\* 2^64: the values of uint64_t are 0..U64-1 and its arithmetic is modulo U64.
Unit == 2
U64 == 65536
MaxFrames == 3
MaxInc == 2
MaxSpeed == 2
MaxCursor == 5

Speeds == (-MaxSpeed)..MaxSpeed
Builds == {"wrap", "saturate"}

\* The recorded buffer of n frames (all non-silent, no two alike).
Buffer(n) == [i \in 1..n |-> <<i * i, -i>>]

\* uint64_t(x) of a double x: truncation toward zero.  A value whose
\* truncation is negative is not representable: the conversion is undefined,
\* and a build either wraps it (x86-64) or saturates it to 0 (AArch64).
Trunc(x) == IF x >= 0 THEN x \div Unit ELSE -((-x) \div Unit)

CastU64(x) ==
  IF Trunc(x) >= 0 THEN Trunc(x) % U64
  ELSE IF rsBuild = "wrap" THEN (U64 + Trunc(x)) % U64 ELSE 0

\* m_LoopEnd - m_LoopStart, in uint64_t.
LoopLen == (m_LoopEnd - m_LoopStart) % U64

\* Resampler::Resampler: m_Index(0), m_PlaybackSpeed(1.0).  A caller passes
\* any loop window; WAV::ParseWAV passes (0, AudioData.size() - 1).
ResamplerInit ==
  /\ \E n \in 0..MaxFrames : rsData = Buffer(n)
  /\ m_Index = 0
  /\ m_IndexIncrement \in 1..MaxInc
  /\ m_PlaybackSpeed = Unit
  /\ m_LoopStart \in 0..MaxFrames
  /\ m_LoopEnd \in (0..MaxFrames) \cup {(Len(rsData) - 1) % U64}
  /\ rsOut = Silent
  /\ rsPath = "none"
  /\ rsOob = FALSE
  /\ rsBuild \in Builds

SetPlaybackSpeed(playback) ==
  /\ rsPath # "crashed"
  /\ m_PlaybackSpeed' = playback
  /\ UNCHANGED <<rsData, m_Index, m_IndexIncrement, m_LoopStart, m_LoopEnd,
                 rsOut, rsPath, rsOob, rsBuild>>
  /\ UNCHANGED rOthers

\* if(size_t(m_Index) >= m_Data.size() && m_LoopEnd == 0)
RsTerminal_Strict == CastU64(m_Index) > Len(rsData) /\ m_LoopEnd = 0

RsTerminal == CastU64(m_Index) >= Len(rsData) /\ m_LoopEnd = 0

\* The index of the second interpolation frame p1.
RsSecondIndex ==
  LET i == CastU64(m_Index)
  IN  IF (i + 1) % U64 >= Len(rsData) /\ m_LoopEnd # 0
        THEN CastU64(m_Index - LoopLen * Unit)
      ELSE IF (i + 1) % U64 >= Len(rsData) THEN i
      ELSE (i + 1) % U64

\* l = x1 + fraction * (x2 - x1), here times Unit.
RsInterpolate(x1, x2, fraction) == x1 * Unit + fraction * (x2 - x1)

\* m_Index += m_IndexIncrement * m_PlaybackSpeed, then the loop wrap.
RsAdvance_IgnoresSpeed ==
  LET next == m_Index + m_IndexIncrement * Unit
  IN  IF next >= m_LoopEnd * Unit /\ m_LoopEnd # 0
        THEN next - LoopLen * Unit
        ELSE next

RsAdvance ==
  LET next == m_Index + m_IndexIncrement * m_PlaybackSpeed
  IN  IF next >= m_LoopEnd * Unit /\ m_LoopEnd # 0
        THEN next - LoopLen * Unit
        ELSE next

\* What m_Data[k] yields (k is 0-based): the frame, or anything when k is
\* out of bounds.
RsRead(k) == IF k < Len(rsData) THEN {rsData[k + 1]} ELSE GarbageFrames

RsProcessStep ==
  /\ rsPath # "crashed"
  /\ Abs(m_Index) <= MaxCursor * Unit
  /\ UNCHANGED <<rsData, m_IndexIncrement, m_PlaybackSpeed, m_LoopStart,
                 m_LoopEnd, rsBuild>>
  /\ IF RsTerminal
       THEN /\ rsOut' = Silent
            /\ rsPath' = "terminal"
            /\ UNCHANGED <<m_Index, rsOob>>
       ELSE LET i == CastU64(m_Index)
                j == RsSecondIndex
                fraction == m_Index - i * Unit
                oob == i >= Len(rsData) \/ j >= Len(rsData)
            IN  \/ /\ oob
                   /\ rsPath' = "crashed"
                   /\ rsOob' = TRUE
                   /\ UNCHANGED <<m_Index, rsOut>>
                \/ \E p0 \in RsRead(i), p1 \in RsRead(j) :
                     /\ rsOut' = <<RsInterpolate(Left(p0), Left(p1), fraction),
                                   RsInterpolate(Right(p0), Right(p1), fraction)>>
                     /\ rsPath' = "interp"
                     /\ rsOob' = (rsOob \/ oob)
                     /\ m_Index' = RsAdvance

RsProcess == RsProcessStep /\ UNCHANGED rOthers

ResamplerNext ==
  \/ \E playback \in Speeds : SetPlaybackSpeed(playback)
  \/ RsProcess

ResamplerIdle ==
  /\ rsData = Buffer(1)
  /\ m_Index = 0
  /\ m_IndexIncrement = 1
  /\ m_PlaybackSpeed = Unit
  /\ m_LoopStart = 0
  /\ m_LoopEnd = 0
  /\ rsOut = Silent
  /\ rsPath = "none"
  /\ rsOob = FALSE
  /\ rsBuild = "wrap"

\* ========================================================================
\* WAV generator (unnamed/part_002: OCAE; Engine/Generators/WAV.cpp:
\* AudioEngine)
\* ========================================================================
\* The AudioEngine generation decodes into its member m_Data and loads only
\* from its constructors; the OCAE generation decodes into a vector local to
\* ParseWAV and can load again (ReadFile, LoadWAV).  Both hand the vector to
\* the Resampler by reference, with the loop window (0, size - 1).
MaxPlays == 4
MaxLoads == 2

WavGens == {"AudioEngine", "OCAE"}

\* A constructed generator that has not loaded anything: m_Resampler().
WavInit ==
  /\ wavGen \in WavGens
  /\ wavData = << >>
  /\ m_Resampler = FALSE
  /\ wavBufAlive = FALSE
  /\ wavLastLoad = "none"
  /\ wavLoads = 0
  /\ wavOut = << >>
  /\ wavStale = FALSE
  /\ rsData = << >>
  /\ m_Index = 0
  /\ m_IndexIncrement = 1
  /\ m_PlaybackSpeed = Unit
  /\ m_LoopStart = 0
  /\ m_LoopEnd = 0
  /\ rsOut = Silent
  /\ rsPath = "none"
  /\ rsOob = FALSE
  /\ rsBuild \in Builds

\* A load can be attempted: the AudioEngine generation loads from its
\* constructor only, the OCAE generation at any time.
WavCanLoad ==
  /\ rsPath # "crashed"
  /\ wavLoads < MaxLoads
  /\ wavGen = "AudioEngine" => wavLastLoad = "none"

\* ReadFile / ParseWAV when loading fails: a message is written and the
\* function returns; no member is touched.
WavLoadFails(why) ==
  /\ WavCanLoad
  /\ wavLastLoad' = why
  /\ UNCHANGED <<wavGen, wavData, m_Resampler, wavBufAlive, wavLoads, wavOut,
                 wavStale>>
  /\ UNCHANGED rvars
  /\ UNCHANGED wOthers

\* ReadFile when the file cannot be opened.
WavOpenFails == WavLoadFails("open_failed")

\* ParseWAV when fmt.size() != sizeof(WAVHeader).
WavBadFmt == WavLoadFails("bad_fmt")

\* The vector ParseWAV decodes n frames into: the member m_Data (appended to)
\* or the local AudioData.
WavDecoded(n) == IF wavGen = "AudioEngine" THEN wavData \o Buffer(n) ELSE Buffer(n)

\* Whether the decoded vector outlives ParseWAV: the member does, the local
\* AudioData is destroyed when ParseWAV returns.
WavBufferSurvives == wavGen = "AudioEngine"

\* The loop end ParseWAV passes: size() - 1, in unsigned arithmetic.
WavLoopEnd(size) == (size - 1) % U64

\* ParseWAV on well-formed input: decode, then
\* m_Resampler = make_shared<Resampler>(vector, SamplingRate, 0, size - 1).
WavParse(n, rate) ==
  /\ WavCanLoad
  /\ wavData' = IF wavGen = "AudioEngine" THEN WavDecoded(n) ELSE wavData
  /\ rsData' = WavDecoded(n)
  /\ m_Index' = 0
  /\ m_IndexIncrement' = rate
  /\ m_PlaybackSpeed' = Unit
  /\ m_LoopStart' = 0
  /\ m_LoopEnd' = WavLoopEnd(Len(WavDecoded(n)))
  /\ rsOut' = Silent
  /\ rsPath' = "none"
  /\ m_Resampler' = TRUE
  /\ wavBufAlive' = WavBufferSurvives
  /\ wavLastLoad' = "ok"
  /\ wavLoads' = wavLoads + 1
  /\ wavOut' = << >>
  /\ UNCHANGED <<wavGen, wavStale, rsOob, rsBuild>>
  /\ UNCHANGED wOthers

\* The test guarding the per-sample path: if(m_Resampler), and in the
\* AudioEngine generation also m_CurrentIndex < m_Data.size() with
\* m_CurrentIndex always 0.
WavHasSource ==
  /\ m_Resampler
  /\ wavGen = "AudioEngine" => 0 < Len(wavData)

\* WAV::Process / WAV::SendSample.  With a resampler it returns the
\* resampler's frame; the resampler reads the vector it was bound to.  When
\* that vector no longer exists the read is undefined: it finds the old
\* contents, or garbage, or faults.
WavProcess ==
  /\ rsPath # "crashed"
  /\ Len(wavOut) < MaxPlays
  /\ UNCHANGED <<wavGen, wavData, m_Resampler, wavBufAlive, wavLastLoad,
                 wavLoads>>
  /\ UNCHANGED wOthers
  /\ IF WavHasSource
       THEN \/ /\ RsProcessStep
               /\ wavStale' = (wavStale \/ ~wavBufAlive)
               /\ wavOut' = IF rsPath' = "crashed" THEN wavOut
                            ELSE Append(wavOut, rsOut')
            \/ /\ ~wavBufAlive
               /\ wavStale' = TRUE
               /\ UNCHANGED <<rsData, m_IndexIncrement, m_PlaybackSpeed,
                              m_LoopStart, m_LoopEnd, rsOob, rsBuild>>
               /\ \/ /\ rsPath' = "crashed"
                     /\ UNCHANGED <<m_Index, rsOut, wavOut>>
                  \/ \E f \in GarbageFrames :
                       /\ rsOut' = f
                       /\ rsPath' = "interp"
                       /\ m_Index' = RsAdvance
                       /\ wavOut' = Append(wavOut, f)
       ELSE /\ wavOut' = Append(wavOut, Silent)
            /\ UNCHANGED rvars
            /\ UNCHANGED wavStale

WavNext ==
  \/ WavOpenFails
  \/ WavBadFmt
  \/ \E n \in 0..MaxFrames, rate \in 1..MaxInc : WavParse(n, rate)
  \/ WavProcess

WavIdle ==
  /\ wavGen = "OCAE"
  /\ wavData = << >>
  /\ m_Resampler = FALSE
  /\ wavBufAlive = FALSE
  /\ wavLastLoad = "none"
  /\ wavLoads = 0
  /\ wavOut = << >>
  /\ wavStale = FALSE

\* ========================================================================
\* WAV::ParseWAV: the sample-decoding loop (unnamed/part_002:124-164,
\* Engine/Generators/WAV.cpp:126-149)
\* ========================================================================
\* The loop of a ParseWAV call whose fmt chunk has the expected size, one
\* step per iteration.  The header fields and the data chunk's length come
\* from the file.
MaxBytes == 5
MaxBps == 4
MaxDecoded == 7

\* The bytes one iteration reads at `data`: *data for 8-bit mono, *data and
\* *(data+1) for 8-bit stereo, one int16_t for 16-bit mono, two for stereo.
ReadWidth ==
  IF BitsPerSample = 8
    THEN (IF ChannelCount = 1 THEN 1 ELSE 2)
    ELSE (IF ChannelCount = 1 THEN 2 ELSE 4)

ParseInit ==
  /\ dataVecSize \in 0..MaxBytes
  /\ BytesPerSample \in 0..MaxBps
  /\ BitsPerSample \in {8, 16}
  /\ ChannelCount \in {1, 2}
  /\ dataPos = 0
  /\ decoded = 0
  /\ parsePc = "reserve"
  /\ parseOverread = FALSE

\* AudioData.reserve(data_vec.size() / header->BytesPerSample) and
\* data = &data_vec[0].  Dividing by a BytesPerSample of 0 is undefined (it
\* traps, or yields some value), and so is data_vec[0] on an empty chunk (a
\* checked build aborts, others form the pointer).
ParseReserve ==
  /\ parsePc = "reserve"
  /\ \/ parsePc' = "decoding"
     \/ /\ BytesPerSample = 0 \/ dataVecSize = 0
        /\ parsePc' = "faulted"
  /\ UNCHANGED <<dataVecSize, BytesPerSample, BitsPerSample, ChannelCount,
                 dataPos, decoded, parseOverread>>
  /\ UNCHANGED pOthers

\* The pointer after an iteration: data += header->BytesPerSample.
ParseAdvance == dataPos + BytesPerSample

\* One iteration of while(data < &data_vec[0] + data_vec.size()): decode a
\* frame from the bytes at data, push it, advance.  Bytes read past the end
\* of the chunk are whatever lies there, or the read faults.
ParseStep ==
  /\ parsePc = "decoding"
  /\ dataPos < dataVecSize
  /\ decoded < MaxDecoded
  /\ LET over == dataPos + ReadWidth > dataVecSize
     IN  \/ /\ decoded' = decoded + 1
            /\ dataPos' = ParseAdvance
            /\ parseOverread' = (parseOverread \/ over)
            /\ UNCHANGED parsePc
         \/ /\ over
            /\ parsePc' = "faulted"
            /\ parseOverread' = TRUE
            /\ UNCHANGED <<dataPos, decoded>>
  /\ UNCHANGED <<dataVecSize, BytesPerSample, BitsPerSample, ChannelCount>>
  /\ UNCHANGED pOthers

\* The loop condition fails: the resampler is built and ParseWAV returns.
ParseDone ==
  /\ parsePc = "decoding"
  /\ dataPos >= dataVecSize
  /\ parsePc' = "done"
  /\ UNCHANGED <<dataVecSize, BytesPerSample, BitsPerSample, ChannelCount,
                 dataPos, decoded, parseOverread>>
  /\ UNCHANGED pOthers

ParseNext ==
  \/ ParseReserve
  \/ ParseStep
  \/ ParseDone

ParseIdle ==
  /\ dataVecSize = 0
  /\ BytesPerSample = 1
  /\ BitsPerSample = 8
  /\ ChannelCount = 1
  /\ dataPos = 0
  /\ decoded = 0
  /\ parsePc = "done"
  /\ parseOverread = FALSE

\* ========================================================================
\* Node and Sound
\* ========================================================================
\* Six assembled graphs.
\*  "vocoder": Vocoder::Vocoder(base_input, N): node 1 is base_input (layer 0),
\*     node 2i is band i's band-pass node (layer 1), node 2i+1 its carrier
\*     node (layer 2, added as output).
\*  "chain": a generator node (layer 0) feeding a gain node (layer 1, output).
\*  "mixer": a generator node (layer 0) feeding a generator-and-modifier node
\*     (layer 1, output) and a modifier-only node (layer 1, no output).
\*  "misordered": the chain's two nodes with the layers the wrong way round:
\*     the generator node in layer 1, the gain node it targets in layer 0.
\*  "samelayer": the chain's two nodes, both in layer 0.
\*  "fanin": two generator nodes (layer 0) that both target the input cell
\*     of one gain node (layer 1, output).
BandCount == 2
MaxTicks == 3
MaxEdits == 1

Cfgs == {"vocoder", "chain", "mixer", "misordered", "samelayer", "fanin"}
Bands == 1..BandCount
BPNode(i) == 2 * i
ModNode(i) == 2 * i + 1

GraphNodes(cfg) ==
  CASE cfg = "vocoder" -> 1..(2 * BandCount + 1)
    [] cfg = "chain" -> 1..2
    [] cfg = "mixer" -> 1..3
    [] cfg = "misordered" -> 1..2
    [] cfg = "samelayer" -> 1..2
    [] cfg = "fanin" -> 1..3

\* An output cell outside the graph, for AddOutput.
OutCell == 0
Cells(cfg) == GraphNodes(cfg) \cup {OutCell}

\* Generators: 1 is a known oscillator, 10+i a Generator::Base (silent),
\* 20+i carrier i.  Modifiers: 1 is a Gain of 2; 10+i and 20+i stand for
\* band i's band-pass and envelope follower (gains i+1 and -1).
GenOsc == 1
GenBase(i) == 10 + i
GenCarrier(i) == 20 + i
ModGainOf2 == 1
ModBP(i) == 10 + i
ModEnv(i) == 20 + i

Gens(cfg) ==
  CASE cfg = "vocoder" -> {GenOsc} \cup {GenBase(i) : i \in Bands}
                                   \cup {GenCarrier(i) : i \in Bands}
    [] cfg = "chain" -> {GenOsc, GenCarrier(1)}
    [] cfg = "mixer" -> {GenOsc, GenCarrier(1)}
    [] cfg = "misordered" -> {GenOsc}
    [] cfg = "samelayer" -> {GenOsc}
    [] cfg = "fanin" -> {GenOsc, GenCarrier(1)}

Mods(cfg) ==
  CASE cfg = "vocoder" -> {ModBP(i) : i \in Bands} \cup {ModEnv(i) : i \in Bands}
    [] cfg = "chain" -> {ModGainOf2, ModEnv(1)}
    [] cfg = "mixer" -> {ModBP(1), ModBP(2)}
    [] cfg = "misordered" -> {ModGainOf2}
    [] cfg = "samelayer" -> {ModGainOf2}
    [] cfg = "fanin" -> {ModGainOf2}

OscWave == << <<1, 1>>, <<2, 2>>, <<0, 0>>, <<-1, -1>>, <<-2, -2>> >>

\* The frame generator g produces on its (k+1)-th call.
GenFrame(g, k) ==
  IF g = GenOsc THEN OscWave[(k % Len(OscWave)) + 1]
  ELSE IF g > 20 THEN <<((k + g) % 3) - 1, 2 - ((k + 2 * g) % 4)>>
  ELSE Silent

\* Gain::Process: the input times m_Gain, per channel.
ModGain(m) ==
  IF m = ModGainOf2 THEN 2 ELSE IF m > 20 THEN -1 ELSE (m - 10) + 1

ModProcess(m, input) == <<Left(input) * ModGain(m), Right(input) * ModGain(m)>>

\* --- assembly ----------------------------------------------------------
\* m_Sound->AddNode(base_input, 0); AddNode(bp, 1); AddNode(mod, 2, true).
VocoderLayer_Swapped(n) == IF n = 1 THEN 0 ELSE IF n % 2 = 0 THEN 2 ELSE 1

VocoderLayer(n) == IF n = 1 THEN 0 ELSE IF n % 2 = 0 THEN 1 ELSE 2

VocoderOutputs_All == 1..(2 * BandCount + 1)

VocoderOutputs == {ModNode(i) : i \in Bands}

\* base_input->AddTarget(*bp); bp->AddTarget(*mod);
VocoderTargets_NoFanOut(n) ==
  IF n = 1 THEN <<BPNode(1)>>
  ELSE IF n % 2 = 0 THEN <<n + 1>> ELSE << >>

VocoderTargets(n) ==
  IF n = 1 THEN [i \in Bands |-> BPNode(i)]
  ELSE IF n % 2 = 0 THEN <<n + 1>> ELSE << >>

\* Node(Generator::Base(true), l_BP[i]) and Node(l_Osc[i], l_Env[i]).
VocoderGen(n) ==
  IF n = 1 THEN GenOsc
  ELSE IF n % 2 = 0 THEN GenBase(n \div 2) ELSE GenCarrier(n \div 2)

VocoderMod(n) ==
  IF n = 1 THEN 0
  ELSE IF n % 2 = 0 THEN ModBP(n \div 2) ELSE ModEnv(n \div 2)

\* The misordered graph: the producer (node 1) is added to layer 1 and its
\* consumer (node 2) to layer 0.
MisorderedLayer_Ordered(n) == n - 1

MisorderedLayer(n) == 2 - n

Layer(cfg, n) ==
  CASE cfg = "vocoder" -> VocoderLayer(n)
    [] cfg = "chain" -> n - 1
    [] cfg = "mixer" -> IF n = 1 THEN 0 ELSE 1
    [] cfg = "misordered" -> MisorderedLayer(n)
    [] cfg = "samelayer" -> 0
    [] cfg = "fanin" -> IF n = 3 THEN 1 ELSE 0

\* The nodes added with contributesToOutput = true.
Outputs(cfg) ==
  CASE cfg = "vocoder" -> VocoderOutputs
    [] cfg = "chain" -> {2}
    [] cfg = "mixer" -> {2}
    [] cfg = "misordered" -> {2}
    [] cfg = "samelayer" -> {2}
    [] cfg = "fanin" -> {3}

InitGen(cfg, n) ==
  CASE cfg = "vocoder" -> VocoderGen(n)
    [] cfg = "chain" -> IF n = 1 THEN GenOsc ELSE 0
    [] cfg = "mixer" -> IF n = 1 THEN GenOsc ELSE IF n = 2 THEN GenCarrier(1) ELSE 0
    [] cfg = "misordered" -> IF n = 1 THEN GenOsc ELSE 0
    [] cfg = "samelayer" -> IF n = 1 THEN GenOsc ELSE 0
    [] cfg = "fanin" -> IF n = 1 THEN GenOsc ELSE IF n = 2 THEN GenCarrier(1) ELSE 0

InitMod(cfg, n) ==
  CASE cfg = "vocoder" -> VocoderMod(n)
    [] cfg = "chain" -> IF n = 2 THEN ModGainOf2 ELSE 0
    [] cfg = "mixer" -> IF n = 1 THEN 0 ELSE ModBP(n - 1)
    [] cfg = "misordered" -> IF n = 2 THEN ModGainOf2 ELSE 0
    [] cfg = "samelayer" -> IF n = 2 THEN ModGainOf2 ELSE 0
    [] cfg = "fanin" -> IF n = 3 THEN ModGainOf2 ELSE 0

InitTargets(cfg, n) ==
  CASE cfg = "vocoder" -> VocoderTargets(n)
    [] cfg = "chain" -> IF n = 1 THEN <<2>> ELSE << >>
    [] cfg = "mixer" -> IF n = 1 THEN <<2, 3>> ELSE << >>
    [] cfg = "misordered" -> IF n = 1 THEN <<2>> ELSE << >>
    [] cfg = "samelayer" -> IF n = 1 THEN <<2>> ELSE << >>
    [] cfg = "fanin" -> IF n = 3 THEN << >> ELSE <<3>>

\* The default interactor each constructor installs: Node(gen) forwards the
\* generator's output, Node(mod) the modifier's, Node(gen, mod) multiplies.
DefaultInteraction_AlwaysGen(gen, mod) == "fwdGen"

DefaultInteraction(gen, mod) ==
  IF gen # 0 /\ mod # 0 THEN "mul"
  ELSE IF gen # 0 THEN "fwdGen" ELSE "fwdMod"

Interactions == {"fwdGen", "fwdMod", "mul", "add"}

Interact(f, g, m) ==
  CASE f = "fwdGen" -> g
    [] f = "fwdMod" -> m
    [] f = "mul" -> <<Left(g) * Left(m), Right(g) * Right(m)>>
    [] f = "add" -> <<Left(g) + Left(m), Right(g) + Right(m)>>

\* --- the vocoder's carriers ------------------------------------------------
\* float freq[] = {220, 440, 660, 880}: the carriers' base frequencies.
FreqTable == <<220, 440, 660, 880>>

\* What a read of freq[] past its end may yield.
GarbageFreqs == {0, 1000}

\* freq[k] (k is 0-based); junk is what the memory past the table holds.
FreqRead(k, junk) == IF k < Len(FreqTable) THEN FreqTable[k + 1] ELSE junk

\* Offsets are whole octaves, in cents; 2^(p/1200) is then a power of two,
\* kept as a numerator over MuUnit.
MaxOct == 1
MuUnit == 2 ^ MaxOct
Offsets == {1200 * k : k \in (-MaxOct)..MaxOct}
Mu(p) == 2 ^ (MaxOct + p \div 1200)

IsCarrier(g) == g \in {GenCarrier(i) : i \in Bands}

\* Vocoder::OscSetup: carrier i (0-based) is built with freq[i] * m_Mu, and
\* m_Mu is 1 when the constructor runs.
OscSetupIndex(i) == i - 1

OscSetup(cfg, junk) ==
  IF cfg = "vocoder"
    THEN [g \in {GenCarrier(i) : i \in Bands} |->
            FreqRead(OscSetupIndex(g - GenCarrier(0)), junk) * MuUnit]
    ELSE << >>

GraphInit ==
  /\ gCfg \in Cfgs
  /\ m_Generator = [n \in GraphNodes(gCfg) |-> InitGen(gCfg, n)]
  /\ m_Modifier = [n \in GraphNodes(gCfg) |-> InitMod(gCfg, n)]
  /\ m_Interaction = [n \in GraphNodes(gCfg) |->
                        DefaultInteraction(InitGen(gCfg, n), InitMod(gCfg, n))]
  /\ m_Targets = [n \in GraphNodes(gCfg) |-> InitTargets(gCfg, n)]
  /\ cell = [c \in Cells(gCfg) |-> Silent]
  /\ nodeOut = [n \in GraphNodes(gCfg) |-> Silent]
  /\ genPhase = [g \in Gens(gCfg) |-> 0]
  /\ gPc = "idle"
  /\ gDone = {}
  /\ gTick = 0
  /\ gResult = Silent
  /\ gEdits = 0
  /\ m_Mu = MuUnit
  /\ \E junk \in GarbageFreqs : carFreq = OscSetup(gCfg, junk)

\* --- reconfiguration between ticks ---------------------------------------
CanEdit == gPc = "idle" /\ gEdits < MaxEdits

\* AddTarget(target) registers target.m_Input; AddOutput(output) the cell.
AddTarget(n, t) ==
  /\ CanEdit
  /\ m_Targets' = [m_Targets EXCEPT ![n] = Append(@, t)]
  /\ gEdits' = gEdits + 1
  /\ UNCHANGED <<gCfg, m_Generator, m_Modifier, m_Interaction, cell, nodeOut,
                 genPhase, gPc, gDone, gTick, gResult>>
  /\ UNCHANGED <<m_Mu, carFreq>>
  /\ UNCHANGED gOthers

AddOutput(n) ==
  /\ CanEdit
  /\ m_Targets' = [m_Targets EXCEPT ![n] = Append(@, OutCell)]
  /\ gEdits' = gEdits + 1
  /\ UNCHANGED <<gCfg, m_Generator, m_Modifier, m_Interaction, cell, nodeOut,
                 genPhase, gPc, gDone, gTick, gResult>>
  /\ UNCHANGED <<m_Mu, carFreq>>
  /\ UNCHANGED gOthers

SetInteractor(n, f) ==
  /\ CanEdit
  /\ f \in {"fwdGen", "mul", "add"} => m_Generator[n] # 0
  /\ f \in {"fwdMod", "mul", "add"} => m_Modifier[n] # 0
  /\ m_Interaction' = [m_Interaction EXCEPT ![n] = f]
  /\ gEdits' = gEdits + 1
  /\ UNCHANGED <<gCfg, m_Generator, m_Modifier, m_Targets, cell, nodeOut,
                 genPhase, gPc, gDone, gTick, gResult>>
  /\ UNCHANGED <<m_Mu, carFreq>>
  /\ UNCHANGED gOthers

\* GenBase_t & GetGenerator() and ModBase_t & GetModifier() return the
\* member handles by non-const reference: the caller can assign through them.
AssignThroughGetGenerator(n, g) ==
  /\ CanEdit
  /\ m_Generator[n] # 0
  /\ m_Generator' = [m_Generator EXCEPT ![n] = g]
  /\ gEdits' = gEdits + 1
  /\ UNCHANGED <<gCfg, m_Modifier, m_Interaction, m_Targets, cell, nodeOut,
                 genPhase, gPc, gDone, gTick, gResult>>
  /\ UNCHANGED <<m_Mu, carFreq>>
  /\ UNCHANGED gOthers

AssignThroughGetModifier(n, m) ==
  /\ CanEdit
  /\ m_Modifier[n] # 0
  /\ m_Modifier' = [m_Modifier EXCEPT ![n] = m]
  /\ gEdits' = gEdits + 1
  /\ UNCHANGED <<gCfg, m_Generator, m_Interaction, m_Targets, cell, nodeOut,
                 genPhase, gPc, gDone, gTick, gResult>>
  /\ UNCHANGED <<m_Mu, carFreq>>
  /\ UNCHANGED gOthers

\* --- Vocoder::SetOffset ----------------------------------------------------
\* The index SetOffset reads for the k-th node of layer 2 (k = 1 for the
\* first): counter starts at 0 and the read is freq[++counter].
SetOffsetIndex(k) == k

\* The loop over graph[2], from its k-th node on: each node's generator is
\* given freq[++counter] * m_Mu.
RECURSIVE SetOffsetLoop(_, _, _, _)
SetOffsetLoop(k, f, mu, junk) ==
  IF k > BandCount THEN f
  ELSE SetOffsetLoop(k + 1,
         [f EXCEPT ![m_Generator[ModNode(k)]] = FreqRead(SetOffsetIndex(k), junk) * mu],
         mu, junk)

\* Vocoder::SetOffset(p).  A layer-2 node whose generator is not a carrier
\* makes the dynamic_cast yield null and the call through it faults.
SetOffset(p) ==
  /\ gCfg = "vocoder"
  /\ gPc = "idle"
  /\ m_Mu' = Mu(p)
  /\ IF \A i \in Bands : IsCarrier(m_Generator[ModNode(i)])
       THEN /\ \E junk \in GarbageFreqs :
                 carFreq' = SetOffsetLoop(1, carFreq, Mu(p), junk)
            /\ UNCHANGED gPc
       ELSE /\ gPc' = "faulted"
            /\ UNCHANGED carFreq
  /\ UNCHANGED <<gCfg, m_Generator, m_Modifier, m_Interaction, m_Targets, cell,
                 nodeOut, genPhase, gDone, gTick, gResult, gEdits>>
  /\ UNCHANGED gOthers

\* --- Node::SendSample ----------------------------------------------------
Range(q) == {q[i] : i \in DOMAIN q}

\* The cells SendSample writes the result to.
WrittenCells_Spill(n) == Range(m_Targets[n]) \cup ({n + 1} \cap GraphNodes(gCfg))

WrittenCells(n) == Range(m_Targets[n])

\* The combined result of node n on the current state.
NodeSample(n) ==
  LET g == IF m_Generator[n] # 0
             THEN GenFrame(m_Generator[n], genPhase[m_Generator[n]]) ELSE Silent
      m == IF m_Modifier[n] # 0
             THEN ModProcess(m_Modifier[n], cell[n]) ELSE Silent
  IN  Interact(m_Interaction[n], g, m)

SendSample(n) ==
  /\ nodeOut' = [nodeOut EXCEPT ![n] = NodeSample(n)]
  /\ cell' = [c \in DOMAIN cell |->
                IF c \in WrittenCells(n) THEN NodeSample(n) ELSE cell[c]]
  /\ genPhase' = IF m_Generator[n] # 0
                   THEN [genPhase EXCEPT ![m_Generator[n]] = @ + 1]
                   ELSE genPhase

\* --- Sound: one tick -------------------------------------------------------
\* The layer evaluated next: the lowest with a node still to run.
PendingLayers == {Layer(gCfg, n) : n \in GraphNodes(gCfg) \ gDone}

NextLayer_Highest ==
  CHOOSE l \in PendingLayers : \A k \in PendingLayers : k <= l

NextLayer == CHOOSE l \in PendingLayers : \A k \in PendingLayers : l <= k

RECURSIVE SumFrames(_)
SumFrames(S) ==
  IF S = {} THEN Silent
  ELSE LET n == CHOOSE x \in S : TRUE
           rest == SumFrames(S \ {n})
       IN  <<Left(nodeOut[n]) + Left(rest), Right(nodeOut[n]) + Right(rest)>>

\* The frame a tick returns: the sum of the flagged nodes' output cells.
SoundMix == SumFrames(Outputs(gCfg))

TickBegin ==
  /\ gPc = "idle"
  /\ gTick < MaxTicks
  /\ gPc' = "ticking"
  /\ gDone' = {}
  /\ UNCHANGED <<gCfg, m_Generator, m_Modifier, m_Interaction, m_Targets, cell,
                 nodeOut, genPhase, gTick, gResult, gEdits>>
  /\ UNCHANGED <<m_Mu, carFreq>>
  /\ UNCHANGED gOthers

EvalNode(n) ==
  /\ gPc = "ticking"
  /\ n \in GraphNodes(gCfg) \ gDone
  /\ Layer(gCfg, n) = NextLayer
  /\ SendSample(n)
  /\ gDone' = gDone \cup {n}
  /\ UNCHANGED <<gCfg, m_Generator, m_Modifier, m_Interaction, m_Targets, gPc,
                 gTick, gResult, gEdits>>
  /\ UNCHANGED <<m_Mu, carFreq>>
  /\ UNCHANGED gOthers

TickEnd ==
  /\ gPc = "ticking"
  /\ gDone = GraphNodes(gCfg)
  /\ gResult' = SoundMix
  /\ gTick' = gTick + 1
  /\ gPc' = "idle"
  /\ UNCHANGED <<gCfg, m_Generator, m_Modifier, m_Interaction, m_Targets, cell,
                 nodeOut, genPhase, gDone, gEdits>>
  /\ UNCHANGED <<m_Mu, carFreq>>
  /\ UNCHANGED gOthers

GraphNext ==
  \/ TickBegin
  \/ \E n \in GraphNodes(gCfg) : EvalNode(n)
  \/ TickEnd
  \/ \E n \in GraphNodes(gCfg), t \in GraphNodes(gCfg) : AddTarget(n, t)
  \/ \E n \in GraphNodes(gCfg) : AddOutput(n)
  \/ \E n \in GraphNodes(gCfg), f \in Interactions : SetInteractor(n, f)
  \/ \E n \in GraphNodes(gCfg), g \in Gens(gCfg) : AssignThroughGetGenerator(n, g)
  \/ \E n \in GraphNodes(gCfg), m \in Mods(gCfg) : AssignThroughGetModifier(n, m)
  \/ \E p \in Offsets : SetOffset(p)

GraphIdle ==
  /\ gCfg = "chain"
  /\ m_Generator = [n \in GraphNodes("chain") |-> InitGen("chain", n)]
  /\ m_Modifier = [n \in GraphNodes("chain") |-> InitMod("chain", n)]
  /\ m_Interaction = [n \in GraphNodes("chain") |->
                        DefaultInteraction(InitGen("chain", n), InitMod("chain", n))]
  /\ m_Targets = [n \in GraphNodes("chain") |-> InitTargets("chain", n)]
  /\ cell = [c \in Cells("chain") |-> Silent]
  /\ nodeOut = [n \in GraphNodes("chain") |-> Silent]
  /\ genPhase = [g \in Gens("chain") |-> 0]
  /\ gPc = "idle"
  /\ gDone = {}
  /\ gTick = 0
  /\ gResult = Silent
  /\ gEdits = 0
  /\ m_Mu = MuUnit
  /\ carFreq = OscSetup("chain", 0)

\* ========================================================================
\* Specifications: one per component, the others held fixed
\* ========================================================================
InitDispatch ==
  /\ DispatchInit
  /\ TriangleIdle
  /\ EchoIdle
  /\ ResamplerIdle
  /\ GraphIdle
  /\ WavIdle
  /\ ParseIdle

SpecDispatch == InitDispatch /\ [][DispatchNext]_vars

InitTriangle ==
  /\ TriangleInit
  /\ DispatchInit
  /\ EchoIdle
  /\ ResamplerIdle
  /\ GraphIdle
  /\ WavIdle
  /\ ParseIdle

SpecTriangle == InitTriangle /\ [][TriangleNext]_vars

InitEcho ==
  /\ EchoInit
  /\ DispatchInit
  /\ TriangleIdle
  /\ ResamplerIdle
  /\ GraphIdle
  /\ WavIdle
  /\ ParseIdle

SpecEcho == InitEcho /\ [][EchoNext]_vars

InitResampler ==
  /\ ResamplerInit
  /\ DispatchInit
  /\ TriangleIdle
  /\ EchoIdle
  /\ GraphIdle
  /\ WavIdle
  /\ ParseIdle

SpecResampler == InitResampler /\ [][ResamplerNext]_vars

InitGraph ==
  /\ GraphInit
  /\ DispatchInit
  /\ TriangleIdle
  /\ EchoIdle
  /\ ResamplerIdle
  /\ WavIdle
  /\ ParseIdle

SpecGraph == InitGraph /\ [][GraphNext]_vars

InitWav ==
  /\ WavInit
  /\ DispatchInit
  /\ TriangleIdle
  /\ EchoIdle
  /\ GraphIdle
  /\ ParseIdle

SpecWav == InitWav /\ [][WavNext]_vars

InitParse ==
  /\ ParseInit
  /\ DispatchInit
  /\ TriangleIdle
  /\ EchoIdle
  /\ ResamplerIdle
  /\ GraphIdle
  /\ WavIdle

SpecParse == InitParse /\ [][ParseNext]_vars

\* ------------------------------------------------------------------------
\* Claims on the dispatch tables
\* ------------------------------------------------------------------------
\* No callable is stored under `fn` for the receiver at `a`: not in its own
\* m_Table (per-instance generation), and for the global generation either
\* the registry has no entry for the address or the entry lacks the name.
Unregistered(a, fn) ==
  IF heap[a].gen = "instance"
    THEN fn \notin DOMAIN heap[a].m_Table
    ELSE a \notin DOMAIN s_Table \/ fn \notin DOMAIN s_Table[a]

\* C1: CallMethod(name, args) with an unregistered name always signals the
\* lookup failure (std::out_of_range) to the caller: no callable is invoked,
\* no receiver and no table changes, and the call does not return normally.
\* This holds for the per-instance table and for the global registry, where
\* an instance with no entry at all fails too.
C1_UnregisteredCallThrows ==
  [][\A a \in Addr, fn \in Names, arg \in Args :
       (a \in DOMAIN heap /\ Unregistered(a, fn) /\ CallMethod(a, fn, arg))
         => /\ callStatus' = "out_of_range"
            /\ callInvoked' = {}
            /\ heap' = heap
            /\ s_Table' = s_Table]_vars

\* A call has failed on a live global-generation instance that has no entry
\* in the registry at all, and on a per-instance receiver.
C1_Witness ==
  /\ callStatus = "out_of_range"
  /\ \E a \in DOMAIN heap : heap[a].gen = "global" /\ a \notin DOMAIN s_Table
  /\ \E a \in DOMAIN heap : heap[a].gen = "instance" /\ heap[a].m_Table # EmptyMap

\* ------------------------------------------------------------------------
\* Claims on the Triangle oscillator
\* ------------------------------------------------------------------------
InRange(x) == -One <= x /\ x <= One

\* C9 (as claimed): for any frequency, the phase accumulator and every value
\* SendSample returns lie within [-1, 1].
C9_AlwaysInRange ==
  InRange(m_Inc) /\ InRange(Left(triOut)) /\ InRange(Right(triOut))

\* C9 (amended): when the phase accumulator is within [-1, 1] and the rate in
\* force is at most 2 in magnitude (|f| <= TickRate / 2), the value
\* SendSample returns and the phase accumulator after the call are within
\* [-1, 1]; SetFrequency leaves the accumulator alone.
C9_InRangeBelowNyquist ==
  [][/\ (InRange(m_Inc) /\ Abs(m_Irate) <= 2 * One /\ TriSendSample)
          => (InRange(m_Inc') /\ InRange(Left(triOut')) /\ InRange(Right(triOut'))
              /\ triOut' = MONO_TO_STEREO(m_Inc'))
     /\ (\E freq \in Freqs : SetFrequency(freq)) => m_Inc' = m_Inc]_vars

\* The accumulator was reflected at the lower boundary under a rate of
\* magnitude 2 or less and the reflected value was returned.
C9_Witness ==
  /\ m_Inc = -One + 4
  /\ m_Irate = 2 * One
  /\ triOut = MONO_TO_STEREO(m_Inc)

RsPastEndNoLoop == m_LoopEnd = 0 /\ m_Index >= Len(rsData) * Unit

\* C10: with no loop configured, once the cursor lies at or past the buffer
\* end every Process call returns the silent frame and leaves the cursor
\* unchanged, and no step (Process or SetPlaybackSpeed, whatever the speed)
\* leaves that terminal state.
C10_TerminalIsAbsorbing ==
  [][RsPastEndNoLoop =>
       /\ m_Index' = m_Index
       /\ RsPastEndNoLoop'
       /\ RsProcess => (rsOut' = Silent /\ rsPath' = "terminal")]_vars

\* Process took the silent return on a non-empty buffer played to its end,
\* under a negative playback speed set afterwards.
C10_Witness ==
  /\ RsPastEndNoLoop
  /\ Len(rsData) > 0
  /\ rsPath = "terminal"
  /\ rsOut = Silent
  /\ m_PlaybackSpeed < 0

\* ------------------------------------------------------------------------
\* Claims on Node and Sound
\* ------------------------------------------------------------------------
\* C2: within one tick the layers are evaluated in strictly increasing index:
\* a node has run only if every node of every lower layer has run.  In the
\* vocoder's graph (layers 0, 1, 2) a band's carrier node runs after its
\* band-pass node, which runs after base_input.
C2_LayersInOrder ==
  /\ \A n \in gDone : \A m \in GraphNodes(gCfg) :
       Layer(gCfg, m) < Layer(gCfg, n) => m \in gDone
  /\ gCfg = "vocoder" =>
       \A i \in Bands : /\ ModNode(i) \in gDone => BPNode(i) \in gDone
                        /\ BPNode(i) \in gDone => 1 \in gDone

\* Inside the vocoder's second tick, layer 2 is half evaluated.
C2_Witness ==
  /\ gCfg = "vocoder"
  /\ gPc = "ticking"
  /\ gTick >= 1
  /\ ModNode(1) \in gDone
  /\ ModNode(2) \notin gDone

\* The per-channel sum of the output cells of the nodes in S.
RECURSIVE SumOut(_)
SumOut(S) ==
  IF S = {} THEN Silent
  ELSE LET n == CHOOSE x \in S : TRUE
       IN  <<Left(nodeOut[n]) + Left(SumOut(S \ {n})),
             Right(nodeOut[n]) + Right(SumOut(S \ {n}))>>

\* C3: the frame a tick returns is the sum of the output cells of exactly the
\* nodes added with contributesToOutput = true, read after all layers ran; in
\* the vocoder's graph these are the carrier nodes (AddNode(mod, 2, true))
\* and not base_input or the band-pass nodes (added without the flag).
C3_ResultIsSumOfFlagged ==
  (gPc = "idle" /\ gTick >= 1) =>
    /\ gResult = SumOut(Outputs(gCfg))
    /\ gCfg = "vocoder" => gResult = SumOut({ModNode(i) : i \in Bands})
    /\ gCfg = "chain" => gResult = nodeOut[2]
    /\ gCfg = "mixer" => gResult = nodeOut[2]

\* A tick of the mixer graph has returned its one flagged node's frame while
\* the unflagged nodes hold other, non-silent frames.
C3_Witness ==
  /\ gCfg = "mixer"
  /\ gPc = "idle"
  /\ gTick >= 1
  /\ nodeOut[1] # Silent
  /\ nodeOut[3] # Silent
  /\ gResult = nodeOut[2]
  /\ gResult # SumOut(GraphNodes(gCfg))

Scale(k, f) == <<k * Left(f), k * Right(f)>>

\* C4: in the 2-layer chain graph (generator node in layer 0 feeding a gain
\* node in layer 1 flagged as output), tick number n returns gain times the
\* generator's n-th frame: no one-tick latency.
C4_ChainHasNoLatency ==
  (gCfg = "chain" /\ gEdits = 0 /\ gPc = "idle" /\ gTick >= 1) =>
    gResult = Scale(2, OscWave[((gTick - 1) % Len(OscWave)) + 1])

\* The chain has produced a non-silent frame on its second tick, different
\* from the first tick's.
C4_Witness ==
  /\ gCfg = "chain"
  /\ gEdits = 0
  /\ gPc = "idle"
  /\ gTick = 2
  /\ gResult = <<4, 4>>

Product(f, g) == <<Left(f) * Left(g), Right(f) * Right(g)>>

\* C5: with the interaction function its constructor installed, a node's
\* SendSample produces the generator's frame when it has only a generator,
\* the modifier's result on the input cell when it has only a modifier, and
\* the per-channel product of the two when it has both.
C5_DefaultInteraction ==
  [][\A n \in GraphNodes(gCfg) :
       (gEdits = 0 /\ EvalNode(n)) =>
         LET gen == m_Generator[n]
             mod == m_Modifier[n]
             g == GenFrame(gen, genPhase[gen])
             m == Scale(ModGain(mod), cell[n])
         IN  nodeOut'[n] = IF gen # 0 /\ mod # 0 THEN Product(g, m)
                           ELSE IF gen # 0 THEN g ELSE m]_vars

\* In one tick of the mixer graph all three kinds of node have run: the
\* generator-only node, the both-present node (with a negative and a zero
\* channel) and the modifier-only node.
C5_Witness ==
  /\ gCfg = "mixer"
  /\ gEdits = 0
  /\ gDone = GraphNodes(gCfg)
  /\ nodeOut[1] = <<1, 1>>
  /\ nodeOut[2] = <<-2, 0>>
  /\ nodeOut[3] = <<3, 3>>

\* C6: after a node's SendSample its own output cell and every cell
\* registered as its target hold the same frame; in the vocoder's graph
\* base_input's frame reaches the input cell of every band-pass node and a
\* band-pass node's frame the input cell of its carrier node.
C6_FanOutIdentical ==
  [][\A n \in GraphNodes(gCfg) :
       EvalNode(n) =>
         /\ \A i \in 1..Len(m_Targets[n]) : cell'[m_Targets[n][i]] = nodeOut'[n]
         /\ (gCfg = "vocoder" /\ gEdits = 0 /\ n = 1) =>
              \A i \in Bands : cell'[BPNode(i)] = nodeOut'[1]
         /\ (gCfg = "vocoder" /\ gEdits = 0 /\ n \in {BPNode(i) : i \in Bands}) =>
              cell'[n + 1] = nodeOut'[n]]_vars

\* base_input has just run in the vocoder's graph and both band-pass input
\* cells hold its non-silent frame.
C6_Witness ==
  /\ gCfg = "vocoder"
  /\ gPc = "ticking"
  /\ gDone = {1}
  /\ nodeOut[1] # Silent
  /\ \A i \in Bands : cell[BPNode(i)] = nodeOut[1]

\* C7 (as claimed): no operation of the node's public interface makes it
\* refer to a different Generator or Modifier.
C7_IdentityFixed ==
  [][m_Generator' = m_Generator /\ m_Modifier' = m_Modifier]_vars

\* ------------------------------------------------------------------------
\* Claims on the Resampler's cursor, loop window and reads
\* ------------------------------------------------------------------------
\* C11 (as claimed): the cursor is never negative, whatever sequence of
\* Process and SetPlaybackSpeed calls is made (negative speeds included).
C11_CursorNonNegative == m_Index >= 0

\* The loop window is well formed: it is not empty and lies in the buffer.
RsLoopWellFormed ==
  /\ m_LoopEnd # 0
  /\ m_LoopStart < m_LoopEnd
  /\ m_LoopEnd <= Len(rsData)

\* The cursor lies inside the loop window [m_LoopStart, m_LoopEnd).
RsInWindow(x) == m_LoopStart * Unit <= x /\ x < m_LoopEnd * Unit

\* C12 (as claimed): with a well-formed loop window and the cursor inside it,
\* a Process call that advances the cursor to or past m_LoopEnd leaves the
\* cursor inside the window, for every per-call increment.
C12_WrapsIntoWindow ==
  [][(/\ RsLoopWellFormed
      /\ RsInWindow(m_Index)
      /\ m_Index + m_IndexIncrement * m_PlaybackSpeed >= m_LoopEnd * Unit
      /\ RsProcess
      /\ rsPath' = "interp")
       => RsInWindow(m_Index')]_vars

\* The frame the claim names as the second interpolation point: the one at
\* floor(cursor) + 1, loop-wrapped by the window length when that position is
\* at or past the buffer end.
RsClaimedSecondIndex ==
  LET i == CastU64(m_Index)
  IN  IF i + 1 >= Len(rsData) THEN i + 1 - LoopLen ELSE i + 1

\* C18 (as claimed): a non-terminal Process call whose reads are in bounds
\* returns, per channel, x1 + frac * (x2 - x1) with x1 the frame at
\* floor(cursor) and x2 the frame at floor(cursor) + 1, or at
\* floor(cursor) + 1 - (m_LoopEnd - m_LoopStart) when floor(cursor) + 1 is at
\* or past the buffer end and a loop is configured.
C18_InterpolatesToNextFrame ==
  [][(/\ m_Index >= 0
      /\ CastU64(m_Index) < Len(rsData)
      /\ (CastU64(m_Index) + 1 >= Len(rsData)) => RsLoopWellFormed
      /\ RsProcess
      /\ rsPath' = "interp"
      /\ ~rsOob')
       => LET i == CastU64(m_Index)
              j == RsClaimedSecondIndex
              frac == m_Index - i * Unit
          IN  /\ j >= 0 /\ j < Len(rsData)
              /\ rsOut' = <<RsInterpolate(Left(rsData[i + 1]),
                                          Left(rsData[j + 1]), frac),
                            RsInterpolate(Right(rsData[i + 1]),
                                          Right(rsData[j + 1]), frac)>>]_vars

\* C19 (as claimed): no Process call reads m_Data outside [0, size - 1].
C19_ReadsInBounds == ~rsOob

\* ------------------------------------------------------------------------
\* Claims on the WAV generator
\* ------------------------------------------------------------------------
\* C13 (as claimed): at every Process call a WAV generator passes on to its
\* resampler, the vector the resampler's m_Data was bound to still exists.
C13_BufferOutlivesResampler ==
  [][(WavProcess /\ WavHasSource) => wavBufAlive]_vars

\* The last load attempt failed.
WavLoadFailed == wavLastLoad \in {"open_failed", "bad_fmt"}

\* C14 (as claimed): after a failed load the generator holds no resampler and
\* every Process call returns the silent frame, until a load succeeds.
C14_FailedLoadIsSilent ==
  WavLoadFailed =>
    /\ ~m_Resampler
    /\ \A k \in 1..Len(wavOut) : wavOut[k] = Silent

\* C17 (as claimed): a WAV generator whose file has the tick rate as its
\* sampling rate returns decoded frame k on its k-th Process call after the
\* load, for each of the N decoded frames, the last one included (reads that
\* went wrong because the vector was destroyed or indexed out of bounds are
\* left aside).
C17_WavPlaysEveryFrame ==
  (m_Resampler /\ m_IndexIncrement = 1 /\ ~wavStale /\ ~rsOob) =>
    \A k \in 1..Len(wavOut) :
      k <= Len(rsData) => wavOut[k] = Scale(Unit, rsData[k])

\* ------------------------------------------------------------------------
\* Claims on the Vocoder
\* ------------------------------------------------------------------------
\* C15 (as claimed): SetOffset(p) gives every carrier i its own base
\* frequency, the one OscSetup built it with, times 2^(p/1200).
C15_SetOffsetScalesOwnBase ==
  [][\A p \in Offsets :
       (gEdits = 0 /\ SetOffset(p)) =>
         \A i \in Bands :
           carFreq'[GenCarrier(i)] = FreqTable[i] * Mu(p)]_vars

\* ------------------------------------------------------------------------
\* Claims on misordered layers and on the order inside a layer
\* ------------------------------------------------------------------------
\* The known oscillator's frame of tick n (n = 1 for the first tick), and the
\* frame a cell it targets holds before its write in tick n.
OscFrameAt(n) == OscWave[((n - 1) % Len(OscWave)) + 1]

StaleOscFrame(n) == IF n = 1 THEN Silent ELSE OscFrameAt(n - 1)

\* A tick of the misordered or same-layer graph has completed, unedited.
MisplacedTickDone(cfg) ==
  gCfg = cfg /\ gEdits = 0 /\ gPc = "idle" /\ gTick >= 1

\* C16 (as claimed): whether the consumer's layer is lower than or equal to
\* its producer's, the tick returns the consumer's result on the frame its
\* input cell held before the producer's write of that tick.
C16_ConsumerSeesPreviousTick ==
  \A cfg \in {"misordered", "samelayer"} :
    MisplacedTickDone(cfg) => gResult = Scale(2, StaleOscFrame(gTick))

\* C16 (amended): a misplaced consumer is not detected and no tick faults or
\* gets stuck.  With the consumer in a strictly lower layer than its producer
\* the tick returns the consumer's result on the previous tick's frame
\* (the initial, silent one on the first tick); with both in the same layer
\* it returns that or the result on the current tick's frame, depending on
\* which of the two the layer evaluates first.
C16_MisplacedConsumer ==
  /\ MisplacedTickDone("misordered") =>
       gResult = Scale(2, StaleOscFrame(gTick))
  /\ MisplacedTickDone("samelayer") =>
       gResult \in {Scale(2, StaleOscFrame(gTick)), Scale(2, OscFrameAt(gTick))}
  /\ (gCfg \in {"misordered", "samelayer"} /\ gPc = "ticking") =>
       ENABLED (TickEnd \/ \E n \in GraphNodes(gCfg) : EvalNode(n))

\* The misordered graph's third tick has returned the gain applied to the
\* second tick's frame, which differs from the third tick's own frame.
C16_Witness ==
  /\ MisplacedTickDone("misordered")
  /\ gTick = 3
  /\ gResult = Scale(2, OscFrameAt(2))
  /\ gResult # Scale(2, OscFrameAt(3))
  /\ cell[2] = OscFrameAt(3)

\* The nodes that target n's input cell, and the graph's shape.
Producers(n) == {m \in GraphNodes(gCfg) : n \in Range(m_Targets[m])}

EdgesAscend ==
  \A m \in GraphNodes(gCfg) : \A n \in Range(m_Targets[m]) \cap GraphNodes(gCfg) :
    Layer(gCfg, m) < Layer(gCfg, n)

NoFanIn == \A n \in GraphNodes(gCfg) : Cardinality(Producers(n)) <= 1

\* What a node that has run in the current tick must hold if the order inside
\* a layer does not matter: its input cell holds its (lowest-numbered)
\* producer's output, and its output is its interaction applied to its
\* generator's frame of this tick and its modifier's result on that input.
RECURSIVE ExpectedOut(_)
ExpectedIn(n) ==
  IF Producers(n) = {} THEN Silent
  ELSE ExpectedOut(CHOOSE m \in Producers(n) : \A k \in Producers(n) : m <= k)

ExpectedOut(n) ==
  LET g == IF m_Generator[n] # 0
             THEN GenFrame(m_Generator[n], genPhase[m_Generator[n]] - 1)
             ELSE Silent
      m == IF m_Modifier[n] # 0
             THEN ModProcess(m_Modifier[n], ExpectedIn(n)) ELSE Silent
  IN  Interact(m_Interaction[n], g, m)

RECURSIVE SumExpected(_)
SumExpected(S) ==
  IF S = {} THEN Silent
  ELSE LET n == CHOOSE x \in S : TRUE
       IN  <<Left(ExpectedOut(n)) + Left(SumExpected(S \ {n})),
             Right(ExpectedOut(n)) + Right(SumExpected(S \ {n}))>>

\* Every node that has run holds the order-independent values, and so does
\* the frame of a completed tick.
OrderIndependent ==
  /\ \A n \in gDone : nodeOut[n] = ExpectedOut(n) /\ cell[n] = ExpectedIn(n)
  /\ (gPc = "idle" /\ gTick >= 1) => gResult = SumExpected(Outputs(gCfg))

\* C20 (as claimed): in a graph whose edges all go to a strictly higher
\* layer, the cells and the tick's frame do not depend on the order in which
\* a layer's nodes run, also when two nodes of a layer target the same cell.
C20_OrderIndependentWithFanIn ==
  (gEdits = 0 /\ EdgesAscend) => OrderIndependent

\* C20 (amended): in a graph whose edges all go to a strictly higher layer
\* and in which no input cell has more than one producer, the cells and the
\* tick's frame do not depend on the order in which a layer's nodes run.
\* When two nodes of a layer target the same cell, the cell keeps the frame
\* of whichever ran last.
C20_OrderIndependentNoFanIn ==
  (gEdits = 0 /\ EdgesAscend /\ NoFanIn) => OrderIndependent

\* In the mixer graph's second tick, layer 1 has run its higher-numbered node
\* before the lower-numbered one, and that node holds a non-silent frame.
C20_Witness ==
  /\ gCfg = "mixer"
  /\ gEdits = 0
  /\ gPc = "ticking"
  /\ gTick = 1
  /\ gDone = {1, 3}
  /\ nodeOut[3] # Silent
  /\ nodeOut[3] = ExpectedOut(3)

\* ------------------------------------------------------------------------
\* Claims on the global dispatch registry
\* ------------------------------------------------------------------------
\* The registry entry for `fn` at address a was registered by an instance
\* other than the one that lives at a now.
StaleEntry(a, fn) ==
  /\ a \in DOMAIN heap
  /\ heap[a].gen = "global"
  /\ a \in DOMAIN s_Table
  /\ fn \in DOMAIN s_Table[a]
  /\ s_Table[a][fn].this # heap[a].inst

\* C21: in the global registry the destructor removes nothing: the entry of
\* the destroyed instance's address keeps its callables.  A later instance at
\* the same address that did not register a name itself finds the destroyed
\* instance's callable under it, and CallMethod invokes that callable, whose
\* captured receiver no longer exists.
C21_StaleEntriesSurvive ==
  [][/\ \A a \in Addr : Destroy(a) => s_Table' = s_Table
     /\ \A a \in Addr, fn \in Names, arg \in Args :
          (StaleEntry(a, fn) /\ CallMethod(a, fn, arg))
            => /\ callInvoked' = {s_Table[a][fn]}
               /\ AliveAt(s_Table[a][fn].this) = {}
               /\ callStatus' = "dangling"]_vars

\* A WAV built by a constructor that registers nothing lives at the address
\* of a destroyed Triangle, and a call of "SetFrequency" on it has run the
\* Triangle's callable.
C21_Witness ==
  \E a \in DOMAIN heap :
    /\ heap[a].cls = "WAV"
    /\ heap[a].ctor # "default"
    /\ StaleEntry(a, "SetFrequency")
    /\ callStatus = "dangling"
    /\ callInvoked = {s_Table[a]["SetFrequency"]}

\* ------------------------------------------------------------------------
\* Claims on the Echo's delay line
\* ------------------------------------------------------------------------
\* C22 (as claimed): the delay line holds exactly sample_delay frames before
\* and after every FilterSample call, and no call reads or pops an empty
\* delay line, for every sample_delay, 0 included.
C22_DelayLineKeepsLength ==
  Len(m_Echo) = echoDelay /\ ~echoUB

\* ------------------------------------------------------------------------
\* Claims on Triangle::SetFrequency
\* ------------------------------------------------------------------------
\* C23: SetFrequency(f) with f > 0 sets the magnitude of the per-call rate to
\* 4 * f / TickRate and keeps its sign (a rate of zero becomes positive); the
\* phase accumulator and the last frame are untouched.  The next frame then
\* continues from the current phase: with the accumulator within [-1, 1] it
\* differs from the accumulator by no more than the rate in force.
C23_SetFrequencyKeepsPhase ==
  [][/\ \A freq \in 1..MaxFreq :
          SetFrequency(freq) =>
            /\ Abs(m_Irate') = TriRate(freq)
            /\ m_Irate < 0 => m_Irate' < 0
            /\ m_Irate >= 0 => m_Irate' > 0
            /\ m_Inc' = m_Inc
            /\ triOut' = triOut
     /\ (InRange(m_Inc) /\ TriSendSample) =>
          /\ triOut' = MONO_TO_STEREO(m_Inc')
          /\ Abs(m_Inc' - m_Inc) <= Abs(m_Irate)]_vars

\* On the way down after a reflection at the upper boundary, the frequency
\* was changed from 1 to 2: the rate is -8/16 and the accumulator still holds
\* 12/16, a phase a rate of 8/16 alone never reaches.
C23_Witness ==
  /\ m_Irate = -TriRate(2)
  /\ m_Inc = One - 4
  /\ triOut = MONO_TO_STEREO(m_Inc)

\* ------------------------------------------------------------------------
\* Claims on the WAV generator's dispatch table
\* ------------------------------------------------------------------------
\* C24 (as claimed): whichever constructor built it, a WAV generator has
\* "ReadFile" in its dispatch table, so CallMethod("ReadFile", path) finds it.
C24_EveryWavExposesReadFile ==
  \A a \in DOMAIN heap :
    heap[a].cls = "WAV" => Lookup(a, "ReadFile") # {}

\* ------------------------------------------------------------------------
\* Claims on ParseWAV's decoding loop
\* ------------------------------------------------------------------------
\* C25 (as claimed): for every BytesPerSample (0 included) and every length
\* of the data chunk, the decoding loop ends: it never faults, every
\* iteration consumes at least one byte of the chunk, so it runs at most
\* data_vec.size() times, and no iteration reads past the end of the chunk.
C25_DecodingEndsInBounds ==
  /\ parsePc # "faulted"
  /\ decoded <= dataVecSize
  /\ ~parseOverread

\* ------------------------------------------------------------------------
\* Claims on the Resampler's advance
\* ------------------------------------------------------------------------
\* C26: a Process call that returns an interpolated frame moves the cursor by
\* m_IndexIncrement times the playback speed in force at that call (and then
\* by the loop wrap, when the advanced cursor is at or past a configured
\* loop end); SetPlaybackSpeed stores the new speed and changes nothing else,
\* so the new speed first shows in the next Process call's advance.
C26_AdvanceUsesSpeedInForce ==
  [][/\ (RsProcess /\ rsPath' = "interp") =>
          LET advanced == m_Index + m_IndexIncrement * m_PlaybackSpeed
          IN  m_Index' = IF m_LoopEnd # 0 /\ advanced >= m_LoopEnd * Unit
                           THEN advanced - LoopLen * Unit
                           ELSE advanced
     /\ \A playback \in Speeds :
          SetPlaybackSpeed(playback) =>
            /\ m_PlaybackSpeed' = playback
            /\ m_Index' = m_Index
            /\ rsData' = rsData
            /\ m_IndexIncrement' = m_IndexIncrement
            /\ m_LoopStart' = m_LoopStart
            /\ m_LoopEnd' = m_LoopEnd
            /\ rsOut' = rsOut]_vars

\* After two calls at speed 1 the speed was set to -1/2 and a third call
\* returned frame 2 and moved the cursor from 2 back to 1.5.
C26_Witness ==
  /\ Len(rsData) = 3
  /\ m_IndexIncrement = 1
  /\ m_LoopEnd = 0
  /\ m_PlaybackSpeed = -1
  /\ m_Index = 2 * Unit - 1
  /\ rsPath = "interp"
  /\ rsOut = Scale(Unit, rsData[3])
  /\ ~rsOob

====
